---- MODULE Spec2Model ----
(***************************************************************************)
(* Model of the training orchestration in src/trainer.py and               *)
(* src/text_classification_train.py: Trainer.run, StopAtTimeHook, the      *)
(* TextClassificationTrainer glue, main's mode dispatch and the embedding  *)
(* file parser.                                                            *)
(***************************************************************************)
EXTENDS Integers, Sequences, FiniteSets, TLC

VARIABLES
    py3,              \* the interpreter: TRUE Python 3, FALSE Python 2
    argv,             \* sys.argv[1:]
    drivers,          \* the driver objects main constructed
    run_called,       \* the driver whose run() main called
    dataset_type,     \* type= of the TextClassificationDataset main built
    cls,              \* class of the trainer object
    task_spec,        \* Trainer.task_spec
    max_time,         \* Trainer.max_time
    num_steps,        \* Trainer.num_steps
    max_steps,        \* Trainer.max_steps
    hooks_ret,        \* what the class's create_hooks returns
    pc,               \* position of the process inside main / Trainer.run
    error,            \* the exception that ended the run
    server_started,   \* tf.train.Server was constructed
    graph_calls,      \* number of calls of create_graph
    graph_data,       \* value returned by create_graph
    hooks_calls,      \* number of calls of create_hooks
    hooks_arg,        \* argument create_hooks received
    hooks,            \* the general hooks list
    chief_only_hooks, \* the chief only hooks list
    session_created,  \* MonitoredTrainingSession was entered
    end_time,         \* StopAtTimeHook._end_time
    begin_at,         \* time.time() when the hooks' begin was called
    last_read,        \* time.time() as StopAtTimeHook.after_run last read it
    last_step,        \* StopAtStepHook._last_step
    global_step,      \* the global step tensor
    steps,            \* number of calls of self.step
    step_args,        \* graph_data values passed to self.step
    stop_requested,   \* hooks that called run_context.request_stop()
    is_chief,         \* Trainer.is_chief
    now,              \* time.time()
    init_time,        \* TextClassificationTrainer.init_time
    print_timestamp,  \* TextClassificationTrainer.print_timestamp
    log,              \* log lines printed by train_step
    uninit_read,      \* train_step read print_timestamp before it was set
    file,             \* the text of the embeddings file
    written,          \* the float rows the embeddings file was written from
    line_num,         \* csv reader position
    embeddings        \* the list _load_embeddings builds

mainVars == <<argv, drivers, run_called, dataset_type>>

objVars == <<cls, task_spec, max_time, num_steps, max_steps, hooks_ret>>

runVars == <<server_started, graph_calls, graph_data, hooks_calls, hooks_arg,
             hooks, chief_only_hooks, session_created, end_time, begin_at,
             last_read, last_step, global_step, steps, step_args,
             stop_requested>>

logVars == <<is_chief, now, init_time, print_timestamp, log, uninit_read>>

csvVars == <<file, written, line_num, embeddings>>

vars == <<py3, mainVars, objVars, pc, error, runVars, logVars, csvVars>>

----------------------------------------------------------------------------
(* Bounds *)

MaxBudget == 1      \* largest step budget tried
MaxTimeBudget == 1  \* largest time budget tried
MaxClock == 2       \* the clock of a run stops advancing here
MaxSteps == 2       \* a run without a stop condition is cut after this many steps
MaxIndex == 1       \* task indices range over -1 .. MaxIndex
MaxEpochs == 2
MaxSize == 3
MaxBatch == 2

NoAttr == -1   \* the attribute was never assigned

----------------------------------------------------------------------------
(* Python values: None, int and float (a float is kept as the fraction n/d) *)

PyNone == [t |-> "none", n |-> 0, d |-> 1]

PyInt(v) == [t |-> "int", n |-> v, d |-> 1]

PyFloat(a, b) == [t |-> "float", n |-> a, d |-> b]

IsNone(x) == x.t = "none"

\* bool(x)
Truthy(x) == ~IsNone(x) /\ x.n # 0

\* x > 0 raises TypeError on Python 3 when x is None
GtZeroRaises(x) == py3 /\ IsNone(x)

\* x > 0; on Python 2 None compares smaller than every number
GtZero(x) == ~IsNone(x) /\ x.n > 0

\* a / b on ints: floor division on Python 2, true division on Python 3
PyDiv(a, b) == IF py3 THEN PyFloat(a, b) ELSE PyInt(a \div b)

\* g >= x for an int g and a number x
IntGe(g, x) == g * x.d >= x.n

----------------------------------------------------------------------------
(* Inputs *)

\* sys.argv[1:]
Argvs == {<<>>, <<"test">>, <<"eval">>, <<"train">>, <<"test", "eval">>}

\* Trainer: trainer.Trainer itself.  GraphOnly: a subclass that overrides
\* create_graph only.  Full: a subclass that overrides create_graph, step and
\* create_hooks.  TextClassificationTrainer: the class of
\* text_classification_train.py.
Classes == {"Trainer", "GraphOnly", "Full", "TextClassificationTrainer"}

TaskSpecs == [job_name : {"master", "worker", "ps"},
              index : -1 .. MaxIndex,
              cluster_spec : BOOLEAN,
              chief : BOOLEAN]

is_master(ts) == ts.job_name = "master"

is_ps(ts) == ts.job_name = "ps"

TimeBudgets == {PyNone} \cup {PyInt(v) : v \in 0 .. MaxTimeBudget}

StepBudgets == {PyNone} \cup {PyInt(v) : v \in -1 .. MaxBudget}

\* what an override of create_hooks may return: each list is None or a list
HookReturns == [hooks : {[none |-> TRUE, items |-> <<>>],
                         [none |-> FALSE, items |-> <<"user">>]},
                chief : {[none |-> TRUE, items |-> <<>>],
                         [none |-> FALSE, items |-> <<>>]}]

\* the values a create_graph override may return
GraphVals == {"None", "bundle"}

NoTaskSpec == [job_name |-> "master", index |-> 0, cluster_spec |-> FALSE,
               chief |-> FALSE]

InList(s, x) == \E i \in DOMAIN s : s[i] = x

----------------------------------------------------------------------------
(* Trainer *)

\* Trainer.create_graph of the base class: what a call of it does
Trainer_create_graph == "NotImplementedError"

\* a base step that returns instead of raising
Trainer_step_pass == "return"

\* Trainer.step of the base class: what a call of it does
Trainer_step == "NotImplementedError"

\* Trainer.create_hooks of the base class
create_hooks == [hooks |-> [none |-> FALSE, items |-> <<>>],
                 chief |-> [none |-> FALSE, items |-> <<>>]]

\* what self.create_graph(dataset_tensor, batch_size) does on an object of
\* class c: TextClassificationTrainer.create_graph takes self only
create_graph(c) ==
    IF c = "Trainer" THEN Trainer_create_graph
    ELSE IF c = "TextClassificationTrainer"
      THEN "TypeError: create_graph() arguments"
    ELSE "return"

\* what self.step(sess, graph_data) does on an object of class c:
\* TextClassificationTrainer defines train_step and inherits step
step(c) == IF c = "Full" THEN "return" ELSE Trainer_step

\* create_hooks called before create_graph
run_next_swapped(p) ==
    CASE p = "start" -> "server"
      [] p = "server" -> "hooks"
      [] p = "hooks" -> "graph"
      [] p = "graph" -> "session"
      [] p = "session" -> "loop"

\* the statements of Trainer.run in their order
run_next(p) ==
    CASE p = "start" -> "server"
      [] p = "server" -> "graph"
      [] p = "graph" -> "hooks"
      [] p = "hooks" -> "session"
      [] p = "session" -> "loop"

\* if hooks is None: hooks = []
or_empty(l) == IF l.none THEN <<>> ELSE l.items

\* the check with the index off by one
master_replica_error_off(ts) == is_master(ts) /\ ts.index > 1

\* the check that opens Trainer.run
master_replica_error(ts) == is_master(ts) /\ ts.index > 0

\* if self.max_time and self.max_time > 0
time_hook_cond == Truthy(max_time) /\ GtZero(max_time)

\* (self.max_steps or self.num_steps)
steps_or == IF Truthy(max_steps) THEN max_steps ELSE num_steps

\* evaluating the condition of the step hook raises TypeError
step_hook_cond_raises ==
    /\ Truthy(steps_or)
    /\ \/ GtZeroRaises(max_steps)
       \/ ~GtZero(max_steps) /\ GtZeroRaises(num_steps)

\* (self.max_steps or self.num_steps) and (self.max_steps > 0 or self.num_steps > 0)
step_hook_cond == Truthy(steps_or) /\ (GtZero(max_steps) \/ GtZero(num_steps))

\* StopAtStepHook(num_steps, last_step) accepts exactly one of the two
StopAtStepHook_init_raises(n, l) == IsNone(n) = IsNone(l)

\* StopAtStepHook.after_create_session
StopAtStepHook_after_create_session(l) ==
    IF IsNone(l) THEN PyInt(global_step + num_steps.n) ELSE l

\* StopAtStepHook.after_run, g the global step after the run
StopAtStepHook_after_run(g) == IntGe(g, last_step)

\* StopAtTimeHook.begin
StopAtTimeHook_begin(t, time_running) == t + time_running

\* the deadline test with >= for >
StopAtTimeHook_after_run_ge(t, end) == t >= end

\* StopAtTimeHook.after_run, t the reading of time.time()
StopAtTimeHook_after_run(t, end) == t > end

\* TextClassificationTrainer.__init__
TextClassificationTrainer_init(epochs, size, batch_size) ==
    PyDiv(epochs * size, batch_size)

\* the mode taken from the last argument instead of the first
mode_last(a) ==
    IF Len(a) > 0 /\ a[Len(a)] = "test" THEN "test"
    ELSE IF Len(a) > 0 /\ a[Len(a)] = "eval" THEN "eval"
    ELSE "train"

\* the mode main takes from sys.argv
mode(a) ==
    IF Len(a) > 0 /\ a[1] = "test" THEN "test"
    ELSE IF Len(a) > 0 /\ a[1] = "eval" THEN "eval"
    ELSE "train"

Fail(e) == /\ pc' = "failed"
           /\ error' = e

\* main(model, name)
main ==
    /\ pc = "init"
    /\ \E a \in Argvs, ts \in TaskSpecs, epochs \in 1 .. MaxEpochs,
          size \in 1 .. MaxSize, batch_size \in 1 .. MaxBatch :
        /\ argv' = a
        /\ IF mode(a) = "test"
             THEN /\ dataset_type' = "train"
                  /\ drivers' = drivers \cup {"TextClassificationTest"}
                  /\ run_called' = "TextClassificationTest"
                  /\ pc' = "external"
                  /\ UNCHANGED <<cls, task_spec, max_steps, error>>
           ELSE IF mode(a) = "eval"
             THEN /\ dataset_type' = "test"
                  /\ drivers' = drivers \cup {"TextClassificationEvaluator"}
                  /\ run_called' = "TextClassificationEvaluator"
                  /\ pc' = "external"
                  /\ UNCHANGED <<cls, task_spec, max_steps, error>>
           ELSE /\ dataset_type' = "train"
                /\ drivers' = drivers \cup {"TextClassificationTrainer"}
                /\ cls' = "TextClassificationTrainer"
                /\ task_spec' = ts
                /\ max_steps' = TextClassificationTrainer_init(epochs, size, batch_size)
                /\ run_called' = "TextClassificationTrainer"
                \* trainer.run() is called without batch_size and epochs
                /\ Fail("TypeError: run() missing arguments")
    /\ UNCHANGED <<py3, max_time, num_steps, hooks_ret>>
    /\ UNCHANGED <<runVars, logVars, csvVars>>

\* a caller constructs a trainer and calls run(batch_size, epochs)
construct ==
    /\ pc = "init"
    /\ \E c \in Classes, ts \in TaskSpecs :
        /\ cls' = c
        /\ task_spec' = ts
        /\ IF c = "TextClassificationTrainer"
             THEN /\ \E epochs \in 1 .. MaxEpochs, size \in 1 .. MaxSize,
                        batch_size \in 1 .. MaxBatch :
                       max_steps' = TextClassificationTrainer_init(epochs, size, batch_size)
                  /\ max_time' = PyNone
                  /\ num_steps' = PyNone
           ELSE /\ max_time' \in TimeBudgets
                /\ num_steps' \in StepBudgets
                /\ max_steps' \in StepBudgets
        /\ IF c = "Full"
             THEN hooks_ret' \in HookReturns
           ELSE hooks_ret' = create_hooks
    /\ pc' = "start"
    /\ UNCHANGED <<py3, mainVars, error, runVars, logVars, csvVars>>

\* Trainer.run, the precondition
run_validate ==
    /\ pc = "start"
    /\ IF master_replica_error(task_spec)
         THEN Fail("ValueError: Only one replica of master expected")
       ELSE /\ pc' = run_next("start")
            /\ UNCHANGED error
    /\ UNCHANGED <<py3, mainVars, objVars, runVars, logVars, csvVars>>

\* Trainer.run, the server; a parameter server joins and never returns
run_server ==
    /\ pc = "server"
    /\ server_started' = task_spec.cluster_spec
    /\ pc' = IF task_spec.cluster_spec /\ is_ps(task_spec)
               THEN "joined" ELSE run_next("server")
    /\ UNCHANGED <<graph_calls, graph_data, hooks_calls, hooks_arg, hooks,
                   chief_only_hooks, session_created, end_time, begin_at,
                   last_read, last_step, global_step, steps, step_args,
                   stop_requested>>
    /\ UNCHANGED <<py3, mainVars, objVars, error, logVars, csvVars>>

\* Trainer.run, graph_data = self.create_graph(dataset_tensor, batch_size)
run_create_graph ==
    /\ pc = "graph"
    /\ IF create_graph(cls) = "return"
         THEN /\ graph_calls' = graph_calls + 1
              /\ graph_data' \in GraphVals
              /\ pc' = run_next("graph")
              /\ UNCHANGED error
       ELSE IF create_graph(cls) = "NotImplementedError"
         THEN /\ graph_calls' = graph_calls + 1
              /\ Fail("NotImplementedError")
              /\ UNCHANGED graph_data
       ELSE /\ Fail(create_graph(cls))
            /\ UNCHANGED <<graph_calls, graph_data>>
    /\ UNCHANGED <<server_started, hooks_calls, hooks_arg, hooks,
                   chief_only_hooks, session_created, end_time, begin_at,
                   last_read, last_step, global_step, steps, step_args,
                   stop_requested>>
    /\ UNCHANGED <<py3, mainVars, objVars, logVars, csvVars>>

\* Trainer.run, from create_hooks to the registration of the stop hooks
run_create_hooks ==
    /\ pc = "hooks"
    /\ hooks_calls' = hooks_calls + 1
    /\ hooks_arg' = graph_data
    /\ chief_only_hooks' = Append(or_empty(hooks_ret.chief), "self")
    /\ LET h1 == or_empty(hooks_ret.hooks)
           h2 == IF time_hook_cond THEN Append(h1, "StopAtTimeHook") ELSE h1
       IN  IF step_hook_cond_raises
             THEN /\ hooks' = h2
                  /\ Fail("TypeError: '>' not supported for NoneType")
                  /\ UNCHANGED last_step
           ELSE IF step_hook_cond /\ StopAtStepHook_init_raises(num_steps, max_steps)
             THEN /\ hooks' = h2
                  /\ Fail("ValueError: Only one of num_steps or last_step")
                  /\ UNCHANGED last_step
           ELSE IF step_hook_cond
             THEN /\ hooks' = Append(h2, "StopAtStepHook")
                  /\ last_step' = max_steps
                  /\ pc' = run_next("hooks")
                  /\ UNCHANGED error
           ELSE /\ hooks' = h2
                /\ pc' = run_next("hooks")
                /\ UNCHANGED <<error, last_step>>
    /\ UNCHANGED <<server_started, graph_calls, graph_data, session_created,
                   end_time, begin_at, last_read, global_step, steps, step_args,
                   stop_requested>>
    /\ UNCHANGED <<py3, mainVars, objVars, logVars, csvVars>>

\* Trainer.run, the MonitoredTrainingSession is entered: begin and
\* after_create_session of the registered hooks (those of the base Trainer,
\* itself a chief only hook, do nothing)
run_create_session ==
    /\ pc = "session"
    /\ is_chief' = task_spec.chief
    /\ session_created' = TRUE
    /\ begin_at' = now
    /\ end_time' = IF InList(hooks, "StopAtTimeHook")
                     THEN StopAtTimeHook_begin(now, max_time.n)
                   ELSE end_time
    /\ last_step' = IF InList(hooks, "StopAtStepHook")
                      THEN StopAtStepHook_after_create_session(last_step)
                    ELSE last_step
    /\ pc' = run_next("session")
    /\ UNCHANGED <<server_started, graph_calls, graph_data, hooks_calls,
                   hooks_arg, hooks, chief_only_hooks, last_read, global_step,
                   steps, step_args, stop_requested>>
    /\ UNCHANGED <<now, init_time, print_timestamp, log, uninit_read>>
    /\ UNCHANGED <<py3, mainVars, objVars, error, csvVars>>

\* sess.should_stop()
should_stop == stop_requested # {}

\* the hooks' after_run of one session.run that left the global step at g
after_run(g) ==
    {h \in {"StopAtTimeHook"} :
        InList(hooks, h) /\ StopAtTimeHook_after_run(now, end_time)}
    \cup
    {h \in {"StopAtStepHook"} :
        InList(hooks, h) /\ StopAtStepHook_after_run(g)}

\* Trainer.run, one iteration of the loop: self.step(sess, graph_data)
run_step ==
    /\ pc = "loop"
    /\ ~should_stop
    /\ steps < MaxSteps
    /\ steps' = steps + 1
    /\ step_args' = step_args \cup {graph_data}
    /\ IF step(cls) = "return"
         THEN /\ global_step' = global_step + 1
              /\ stop_requested' = stop_requested \cup after_run(global_step + 1)
              /\ last_read' = IF InList(hooks, "StopAtTimeHook") THEN now
                              ELSE last_read
              /\ UNCHANGED <<pc, error>>
       ELSE /\ Fail(step(cls))
            /\ UNCHANGED <<global_step, stop_requested, last_read>>
    /\ UNCHANGED <<server_started, graph_calls, graph_data, hooks_calls,
                   hooks_arg, hooks, chief_only_hooks, session_created,
                   end_time, begin_at, last_step>>
    /\ UNCHANGED <<py3, mainVars, objVars, logVars, csvVars>>

\* Trainer.run, the loop ends
run_exit ==
    /\ pc = "loop"
    /\ should_stop
    /\ pc' = "done"
    /\ UNCHANGED <<py3, mainVars, objVars, error, runVars, logVars, csvVars>>

\* time passes while the session is open
tick ==
    /\ pc \in {"session", "loop"}
    /\ now < MaxClock
    /\ now' = now + 1
    /\ UNCHANGED <<is_chief, init_time, print_timestamp, log, uninit_read>>
    /\ UNCHANGED <<py3, mainVars, objVars, pc, error, runVars, csvVars>>

\* the state before any operation of the three specifications
Blank ==
    /\ py3 \in BOOLEAN
    /\ argv = <<>>
    /\ drivers = {}
    /\ run_called = "none"
    /\ dataset_type = "none"
    /\ task_spec = NoTaskSpec
    /\ max_time = PyNone
    /\ num_steps = PyNone
    /\ max_steps = PyNone
    /\ hooks_ret = create_hooks
    /\ error = "none"
    /\ server_started = FALSE
    /\ graph_calls = 0
    /\ graph_data = "unset"
    /\ hooks_calls = 0
    /\ hooks_arg = "unset"
    /\ hooks = <<>>
    /\ chief_only_hooks = <<>>
    /\ session_created = FALSE
    /\ end_time = 0
    /\ begin_at = 0
    /\ last_read = NoAttr
    /\ last_step = PyNone
    /\ global_step = 0
    /\ steps = 0
    /\ step_args = {}
    /\ stop_requested = {}
    /\ init_time = NoAttr
    /\ print_timestamp = NoAttr
    /\ log = <<>>
    /\ uninit_read = FALSE
    /\ line_num = 0
    /\ embeddings = <<>>

Init ==
    /\ Blank
    /\ cls = "none"
    /\ pc = "init"
    /\ is_chief = FALSE
    /\ now = 0
    /\ file = <<>>
    /\ written = <<>>

Next ==
    \/ main
    \/ construct
    \/ run_validate
    \/ run_server
    \/ run_create_graph
    \/ run_create_hooks
    \/ run_create_session
    \/ run_step
    \/ run_exit
    \/ tick

Spec == Init /\ [][Next]_vars

----------------------------------------------------------------------------
(* TextClassificationTrainer.train_step and after_create_session, driven   *)
(* with an injected clock                                                  *)

\* 5 * 60
LogPeriod == 300

MaxLogClock == 1000   \* the injected clock stops here

MaxLogSteps == 5      \* train_step is called at most this many times

\* how far the injected clock moves between two readings
Deltas == {0, 1, 299, 300, 301}

ShortDeltas == {0, 1}

\* the test without the period
log_due_now(t, stamp) == t > stamp

\* time.time() > self.print_timestamp + 5 * 60
log_due(t, stamp) == t > stamp + LogPeriod

\* the session is created; only the chief runs the chief only hooks, of
\* which the trainer is one: TextClassificationTrainer.after_create_session
after_create_session ==
    /\ pc = "log_session"
    /\ IF is_chief
         THEN \E d1 \in ShortDeltas, d2 \in ShortDeltas :
                 /\ init_time' = now + d1
                 /\ print_timestamp' = now + d1 + d2
                 /\ now' = now + d1 + d2
       ELSE UNCHANGED <<init_time, print_timestamp, now>>
    /\ pc' = "log_loop"
    /\ UNCHANGED <<py3, mainVars, objVars, error, runVars>>
    /\ UNCHANGED <<is_chief, log, uninit_read>>
    /\ UNCHANGED csvVars

\* TextClassificationTrainer.train_step: session.run takes d0, then the clock
\* is read for the test, for print_timestamp and for the elapsed time
train_step ==
    /\ pc = "log_loop"
    /\ \E d0 \in Deltas, d1 \in ShortDeltas, d2 \in ShortDeltas :
        LET t1 == now + d0
            t2 == t1 + d1
            t3 == t2 + d2
        IN  /\ t3 <= MaxLogClock
            /\ global_step < MaxLogSteps
            /\ global_step' = global_step + 1
            /\ IF ~is_chief
                 THEN /\ now' = now + d0
                      /\ UNCHANGED <<print_timestamp, log, uninit_read, pc, error>>
               ELSE IF print_timestamp = NoAttr
                 THEN /\ uninit_read' = TRUE
                      /\ now' = t1
                      /\ Fail("AttributeError: print_timestamp")
                      /\ UNCHANGED <<print_timestamp, log>>
               ELSE IF log_due(t1, print_timestamp)
                 THEN /\ print_timestamp' = t2
                      /\ log' = Append(log, [step |-> global_step + 1,
                                             timestamp |-> t2,
                                             elapsed |-> t3 - init_time])
                      /\ now' = t3
                      /\ UNCHANGED <<uninit_read, pc, error>>
               ELSE /\ now' = t1
                    /\ UNCHANGED <<print_timestamp, log, uninit_read, pc, error>>
    /\ UNCHANGED <<server_started, graph_calls, graph_data, hooks_calls,
                   hooks_arg, hooks, chief_only_hooks, session_created,
                   end_time, begin_at, last_read, last_step, steps, step_args,
                   stop_requested>>
    /\ UNCHANGED <<py3, mainVars, objVars>>
    /\ UNCHANGED <<is_chief, init_time>>
    /\ UNCHANGED csvVars

InitLog ==
    /\ Blank
    /\ cls = "TextClassificationTrainer"
    /\ pc = "log_session"
    /\ is_chief \in BOOLEAN
    /\ now \in ShortDeltas
    /\ file = <<>>
    /\ written = <<>>

NextLog ==
    \/ after_create_session
    \/ train_step

SpecLog == InitLog /\ [][NextLog]_vars

----------------------------------------------------------------------------
(* TextClassificationTrainer._load_embeddings.  A float is kept in tenths, *)
(* the file is the sequence of its characters.                             *)

MaxRows == 2

MaxCols == 2

\* the floats the files are written from, in tenths: -1.5, 0.5, 12.0
FloatVals == {-15, 5, 120}

DigitChars == <<"0", "1", "2", "3", "4", "5", "6", "7", "8", "9">>

RECURSIVE FormatNat(_)
\* str(n) for a natural n
FormatNat(n) ==
    IF n < 10 THEN <<DigitChars[n + 1]>>
    ELSE FormatNat(n \div 10) \o <<DigitChars[(n % 10) + 1]>>

\* repr(v) of a float with one decimal
FormatFloat(v) ==
    LET a == IF v < 0 THEN -v ELSE v
    IN  (IF v < 0 THEN <<"-">> ELSE <<>>)
        \o FormatNat(a \div 10) \o <<".">> \o <<DigitChars[(a % 10) + 1]>>

RECURSIVE Join(_, _)
\* sep.join(parts)
Join(parts, sep) ==
    IF Len(parts) = 0 THEN <<>>
    ELSE IF Len(parts) = 1 THEN parts[1]
    ELSE parts[1] \o <<sep>> \o Join(Tail(parts), sep)

\* the text of a file of the rows m, one line per row
FormatFile(m, trailing_newline) ==
    LET lines == [i \in 1 .. Len(m) |->
                     Join([j \in 1 .. Len(m[i]) |-> FormatFloat(m[i][j])], ",")]
    IN  Join(lines, "\n")
        \o (IF trailing_newline /\ Len(m) > 0 THEN <<"\n">> ELSE <<>>)

Matrices ==
    UNION {[1 .. r -> [1 .. c -> FloatVals]] : r \in 0 .. MaxRows, c \in 1 .. MaxCols}

RECURSIVE SplitBy(_, _)
\* s.split(sep)
SplitBy(s, sep) ==
    IF \A i \in DOMAIN s : s[i] # sep THEN <<s>>
    ELSE LET k == CHOOSE i \in DOMAIN s :
                      s[i] = sep /\ \A j \in 1 .. i - 1 : s[j] # sep
         IN  <<SubSeq(s, 1, k - 1)>> \o SplitBy(SubSeq(s, k + 1, Len(s)), sep)

\* the lines of the file, the last one lost when no newline ends it
file_lines_drop(text) ==
    LET p == SplitBy(text, "\n")
    IN  SubSeq(p, 1, Len(p) - 1)

\* the lines that iterating over the open file yields
file_lines(text) ==
    LET p == SplitBy(text, "\n")
    IN  IF p[Len(p)] = <<>> THEN SubSeq(p, 1, Len(p) - 1) ELSE p

\* the row csv.reader yields for a line
csv_row(line) == IF line = <<>> THEN <<>> ELSE SplitBy(line, ",")

DigitVal(c) == CHOOSE d \in 0 .. 9 : DigitChars[d + 1] = c

RECURSIVE ParseNat(_)
\* int(s) for a string of digits
ParseNat(s) ==
    IF Len(s) = 0 THEN 0
    ELSE 10 * ParseNat(SubSeq(s, 1, Len(s) - 1)) + DigitVal(s[Len(s)])

\* float(r), in tenths
float(r) ==
    LET neg == Len(r) > 0 /\ r[1] = "-"
        body == IF neg THEN Tail(r) ELSE r
        parts == SplitBy(body, ".")
        frac == IF Len(parts) > 1 /\ Len(parts[2]) > 0
                  THEN DigitVal(parts[2][1]) ELSE 0
        a == 10 * ParseNat(parts[1]) + frac
    IN  IF neg THEN -a ELSE a

\* [float(r) for r in row]
float_row(row) == [j \in 1 .. Len(row) |-> float(row[j])]

\* _load_embeddings, one iteration of: for row in reader
load_row ==
    /\ pc = "csv_read"
    /\ line_num < Len(file_lines(file))
    /\ line_num' = line_num + 1
    /\ embeddings' = Append(embeddings,
                            float_row(csv_row(file_lines(file)[line_num + 1])))
    /\ UNCHANGED <<file, written>>
    /\ UNCHANGED <<py3, mainVars, objVars, pc, error, runVars, logVars>>

\* _load_embeddings, return embeddings
load_return ==
    /\ pc = "csv_read"
    /\ line_num = Len(file_lines(file))
    /\ pc' = "csv_done"
    /\ UNCHANGED <<py3, mainVars, objVars, error, runVars>>
    /\ UNCHANGED logVars
    /\ UNCHANGED csvVars

InitCsv ==
    /\ Blank
    /\ cls = "TextClassificationTrainer"
    /\ pc = "csv_read"
    /\ is_chief = FALSE
    /\ now = 0
    /\ written \in Matrices
    /\ \E nl \in BOOLEAN : file = FormatFile(written, nl)

NextCsv ==
    \/ load_row
    \/ load_return

SpecCsv == InitCsv /\ [][NextCsv]_vars

----------------------------------------------------------------------------
(* Properties of Trainer.run, checked under Spec *)

\* Trainer.run(batch_size, epochs) was called and its first statement is past
run_entered == run_called = "none" /\ pc \notin {"init", "start"}

MasterError == "ValueError: Only one replica of master expected"

nothing_started ==
    /\ ~server_started
    /\ graph_calls = 0
    /\ hooks_calls = 0
    /\ ~session_created
    /\ steps = 0

\* C1, as stated: whenever is_master() holds and index # 0, run fails its
\* precondition before a server, a graph, a session or a step exists.
C1_NonzeroIndexRejected ==
    (run_entered /\ is_master(task_spec) /\ task_spec.index # 0)
        => (pc = "failed" /\ error = MasterError /\ nothing_started)

\* C1, amended: whenever is_master() holds and index > 0, run fails its
\* precondition before a server, a graph, a session or a step exists; a
\* master with a negative index passes the check.
C1_PositiveIndexRejected ==
    /\ (run_entered /\ is_master(task_spec) /\ task_spec.index > 0)
           => (pc = "failed" /\ error = MasterError /\ nothing_started)
    /\ (run_entered /\ is_master(task_spec) /\ task_spec.index < 0)
           => error # MasterError

C1_Witness ==
    /\ run_entered
    /\ is_master(task_spec)
    /\ task_spec.index > 0
    /\ task_spec.cluster_spec
    /\ error = MasterError

\* C2: after a check of StopAtTimeHook.after_run the hook has requested the
\* stop if and only if the time it read is more than time_running after
\* begin(); a check at exactly time_running does not request it, and the
\* deadline the hook recorded at begin() is never changed.
C2_StopIffElapsedExceeds ==
    (InList(hooks, "StopAtTimeHook") /\ session_created)
        => /\ end_time = begin_at + max_time.n
           /\ last_read # NoAttr
                => ("StopAtTimeHook" \in stop_requested
                        <=> last_read - begin_at > max_time.n)
           /\ last_read = NoAttr => "StopAtTimeHook" \notin stop_requested

\* the second check of a run is the first one after the threshold
C2_Witness ==
    /\ InList(hooks, "StopAtTimeHook")
    /\ "StopAtTimeHook" \in stop_requested
    /\ last_read - begin_at = max_time.n + 1
    /\ steps >= 2

\* the run has a step budget and no time budget
step_budget_only ==
    /\ IsNone(max_time)
    /\ \/ IsNone(num_steps) /\ GtZero(max_steps)
       \/ IsNone(max_steps) /\ GtZero(num_steps)

budget == IF IsNone(max_steps) THEN num_steps ELSE max_steps

\* C3: a run whose class implements the extension points, with a valid task
\* specification, a step budget N > 0 and no time budget, ends normally after
\* exactly N calls of step.
C3_ExactlyBudgetSteps ==
    (/\ run_called = "none"
     /\ cls \in {"Full", "TextClassificationTrainer"}
     /\ ~master_replica_error(task_spec)
     /\ ~(task_spec.cluster_spec /\ is_ps(task_spec))
     /\ step_budget_only
     /\ pc \in {"done", "failed"})
        => (pc = "done" /\ steps * budget.d = budget.n)

\* C5: main constructs exactly the driver of the mode that the first
\* argument selects (none: the trainer on 'train'; test: the test driver on
\* 'train'; eval: the evaluator on 'test') and calls that driver's run.
C5_ModeDispatch ==
    run_called # "none" =>
        /\ drivers = {run_called}
        /\ argv = <<>> =>
              run_called = "TextClassificationTrainer" /\ dataset_type = "train"
        /\ (Len(argv) > 0 /\ argv[1] = "test") =>
              run_called = "TextClassificationTest" /\ dataset_type = "train"
        /\ (Len(argv) > 0 /\ argv[1] = "eval") =>
              run_called = "TextClassificationEvaluator" /\ dataset_type = "test"

C5_Witness ==
    /\ argv = <<"eval">>
    /\ run_called = "TextClassificationEvaluator"
    /\ pc = "external"

\* C6: on the base class create_graph fails with NotImplementedError before
\* create_hooks is called or a session exists; on a class that overrides
\* create_graph only, the first call of step fails with NotImplementedError
\* and no step ever completes; such classes get two empty hook lists from
\* create_hooks.
C6_NotImplemented ==
    /\ (run_called = "none" /\ cls = "Trainer") =>
          /\ hooks_calls = 0 /\ ~session_created /\ steps = 0
          /\ graph_calls > 0 => (pc = "failed" /\ error = "NotImplementedError")
          /\ pc # "done"
    /\ (run_called = "none" /\ cls = "GraphOnly") =>
          /\ global_step = 0 /\ steps <= 1
          /\ steps = 1 => (pc = "failed" /\ error = "NotImplementedError")
          /\ pc # "done"
          /\ session_created =>
                /\ chief_only_hooks = <<"self">>
                /\ ~InList(hooks, "user")

C6_Witness ==
    /\ cls = "GraphOnly"
    /\ session_created
    /\ steps = 1
    /\ error = "NotImplementedError"

\* C7: a run of a TextClassificationTrainer never ends in the base class's
\* not-implemented error nor in an argument mismatch between a caller and
\* the method it calls.
C7_PlugsIn ==
    cls = "TextClassificationTrainer" =>
        error \notin {"NotImplementedError",
                      "TypeError: create_graph() arguments",
                      "TypeError: run() missing arguments"}

\* C9: create_graph is called once, then create_hooks once with the value
\* create_graph returned, then the session is created, then the steps run,
\* each with that same value.
C9_RunOrder ==
    run_called = "none" =>
        /\ graph_calls <= 1
        /\ hooks_calls <= graph_calls
        /\ hooks_calls = 1 => (graph_data \in GraphVals /\ hooks_arg = graph_data)
        /\ hooks_calls = 0 => hooks_arg = "unset"
        /\ session_created => hooks_calls = 1
        /\ steps > 0 => (session_created /\ step_args = {graph_data})
        /\ steps = 0 => step_args = {}

C9_Witness ==
    /\ cls = "Full"
    /\ ~is_ps(task_spec)
    /\ steps = 2
    /\ graph_data = "bundle"
    /\ pc = "done"

\* C10: once the hooks are registered nothing was raised on the way, the
\* time hook is registered exactly when max_time is set and > 0, the step
\* hook exactly when num_steps or max_steps is set and > 0, and the trainer
\* is the last of the chief only hooks.
C10_StopHooksRegistered ==
    (run_called = "none" /\ hooks_calls = 1) =>
        /\ error \notin {"TypeError: '>' not supported for NoneType",
                         "ValueError: Only one of num_steps or last_step"}
        /\ InList(hooks, "StopAtTimeHook") <=> GtZero(max_time)
        /\ InList(hooks, "StopAtStepHook") <=> (GtZero(num_steps) \/ GtZero(max_steps))
        /\ chief_only_hooks = Append(or_empty(hooks_ret.chief), "self")

----------------------------------------------------------------------------
(* Properties of train_step, checked under SpecLog *)

\* C4: only a chief prints; between the timestamps of two consecutive log
\* lines, and between the creation of the session and the first log line,
\* lie at least 300 seconds; print_timestamp is never read before it is set.
C4_LogSpacing ==
    /\ log # <<>> => is_chief
    /\ \A i \in 1 .. Len(log) - 1 :
          log[i + 1].timestamp - log[i].timestamp >= LogPeriod
    /\ Len(log) > 0 => log[1].timestamp - init_time >= LogPeriod
    /\ ~uninit_read

C4_Witness ==
    /\ is_chief
    /\ Len(log) >= 2
    /\ log[2].timestamp - log[1].timestamp = 301

----------------------------------------------------------------------------
(* Properties of _load_embeddings, checked under SpecCsv *)

\* C8: the rows read so far are the first rows the file was written from;
\* at the return the list has one sequence per row of the file, each with
\* one float per value of the row, in file order.
C8_RowsParsed ==
    /\ line_num <= Len(written)
    /\ embeddings = SubSeq(written, 1, line_num)
    /\ pc = "csv_done" =>
          /\ Len(embeddings) = Len(written)
          /\ \A i \in 1 .. Len(written) :
                /\ Len(embeddings[i]) = Len(written[i])
                /\ \A j \in 1 .. Len(written[i]) : embeddings[i][j] = written[i][j]

C8_Witness ==
    /\ pc = "csv_done"
    /\ Len(embeddings) >= 2
    /\ Len(embeddings[1]) >= 2
    /\ embeddings[1] # embeddings[2]
    /\ embeddings[1][1] < 0

====
